---- MODULE Spec2Model ----
(***************************************************************************)
(* Model of the meteora_sol_vault program                                  *)
(* (programs/dlmmvault/src/lib.rs): one VaultAccount per admin, one        *)
(* VaultUser per (user, vault), lamport balances, and the five             *)
(* instructions initialize_vault, deposit, invest, finalize_strategy and   *)
(* withdraw.  The share price is computed by the program in f64; the       *)
(* binary64 operations are modelled bit-exactly below.                     *)
(***************************************************************************)
EXTENDS Integers, Sequences, FiniteSets, TLC

\* ------------------------------------------------------------------------
\* Bounds of the model.
\* ------------------------------------------------------------------------
\* Stand-in for u64::MAX (2^64 - 1 is beyond the model checker's integers):
\* the largest value a u64 field can hold in this model.
U64_MAX == 8
\* Lamports each signer's wallet starts with.
InitLamports == 2

\* ------------------------------------------------------------------------
\* IEEE-754 binary64 arithmetic (Rust f64), round-to-nearest-even.
\* A positive finite value is [m |-> mantissa, e |-> exponent], meaning
\* m * 2^e with 2^52 <= m < 2^53; zero is [m |-> 0, e |-> 0].
\* A mantissa is a 3-limb number <<h, m, l>> = h*2^36 + m*2^18 + l.
\* ------------------------------------------------------------------------
Limb == 262144
MantHi == 65536
BigZero == <<0, 0, 0>>

BigGE(x, y) ==
    \/ x[1] > y[1]
    \/ /\ x[1] = y[1]
       /\ \/ x[2] > y[2]
          \/ x[2] = y[2] /\ x[3] >= y[3]

BigSub(x, y) ==
    LET l  == x[3] - y[3]
        b1 == IF l < 0 THEN 1 ELSE 0
        m  == x[2] - y[2] - b1
        b2 == IF m < 0 THEN 1 ELSE 0
    IN  <<x[1] - y[1] - b2, m + b2 * Limb, l + b1 * Limb>>

BigMulSmall(x, w) ==
    LET l == w * x[3]
        m == w * x[2] + (l \div Limb)
    IN  <<w * x[1] + (m \div Limb), m % Limb, l % Limb>>

BigAddSmall(x, c) ==
    LET l == x[3] + c
        m == x[2] + (l \div Limb)
    IN  <<x[1] + (m \div Limb), m % Limb, l % Limb>>

BigDbl(x) == BigMulSmall(x, 2)

BigHalf(x) ==
    << x[1] \div 2,
       (x[2] + (x[1] % 2) * Limb) \div 2,
       (x[3] + (x[2] % 2) * Limb) \div 2 >>

BigOdd(x) == x[3] % 2 = 1

F64Zero == [m |-> BigZero, e |-> 0]

\* Exponent range of binary64 mantissa/exponent pairs (m * 2^e).
MinExp == -1074
MaxExp == 971

Pow2Tab == << 1, 2, 4, 8, 16, 32, 64, 128, 256, 512, 1024, 2048, 4096,
              8192, 16384, 32768, 65536, 131072, 262144, 524288, 1048576,
              2097152, 4194304, 8388608, 16777216, 33554432, 67108864,
              134217728, 268435456, 536870912, 1073741824 >>
Pow2(k) == Pow2Tab[k + 1]

\* Number of significant bits of n, 0 < n < 2^30.
BitLen(n) == CHOOSE k \in 1..30 : Pow2(k - 1) <= n /\ n < Pow2(k)

\* Number of trailing zero bits of n, 0 < n < 2^30.
TrailingZeros(n) == CHOOSE k \in 0..29 : n % Pow2(k) = 0 /\ n % Pow2(k + 1) # 0

\* x * 2^k, 0 <= k <= 24.
BigShl(x, k) ==
    IF k > 12 THEN BigMulSmall(BigMulSmall(x, Pow2(12)), Pow2(k - 12))
    ELSE BigMulSmall(x, Pow2(k))

\* floor(x / 2^k), 0 <= k < 18.
BigShr(x, k) ==
    LET p == Pow2(k)
        q == Limb \div p
    IN  << x[1] \div p,
           (x[1] % p) * q + (x[2] \div p),
           (x[2] % p) * q + (x[3] \div p) >>

\* Scale a nonzero mantissa below 2^53 up to 53 bits (exact).
RECURSIVE NormUp(_, _)
NormUp(m, e) ==
    IF e < MinExp THEN [m |-> m, e |-> e]
    ELSE IF m[1] = 0 THEN NormUp(<<m[2], m[3], 0>>, e - 18)
    ELSE LET k == 17 - BitLen(m[1])
         IN  [m |-> BigShl(m, k), e |-> e - k]

\* Scale a mantissa down to 53 bits, keeping the last bit shifted out
\* (round) and whether anything below it was lost (sticky).
RECURSIVE NormDown(_, _, _, _)
NormDown(m, e, round, sticky) ==
    IF m[1] < 2 * MantHi \/ e > MaxExp
    THEN [m |-> m, e |-> e, round |-> round, sticky |-> sticky]
    ELSE NormDown(BigHalf(m), e + 1, BigOdd(m), sticky \/ round)

\* Round-to-nearest, ties-to-even, of a 53-bit mantissa with round/sticky.
RoundRNE(m, e, round, sticky) ==
    IF round /\ (sticky \/ BigOdd(m))
    THEN LET up == BigAddSmall(m, 1)
         IN  IF up[1] >= 2 * MantHi
             THEN [m |-> BigHalf(up), e |-> e + 1]
             ELSE [m |-> up, e |-> e]
    ELSE [m |-> m, e |-> e]

\* `n as f64` for an unsigned integer n (exact below 2^53).
U64ToF64(n) ==
    IF n = 0 THEN F64Zero
    ELSE NormUp(<<0, n \div Limb, n % Limb>>, 0)

\* One radix-512 step of long division: the next 9 quotient bits of r / d
\* (0 <= r < d, d a 53-bit mantissa) and the new remainder.
DivStep(r, d) ==
    LET n  == BigMulSmall(r, 512)
        qh == n[1] \div (d[1] + 1)
        r1 == BigSub(n, BigMulSmall(d, qh))
    IN  IF BigGE(r1, d) THEN [q |-> qh + 1, r |-> BigSub(r1, d)]
        ELSE [q |-> qh, r |-> r1]

\* x / y in f64, y nonzero: 55 quotient bits, then one rounding.
F64Div(x, y) ==
    IF x.m = BigZero THEN F64Zero
    ELSE LET ge == BigGE(x.m, y.m)
             n0 == IF ge THEN x.m ELSE BigDbl(x.m)
             e0 == IF ge THEN x.e - y.e - 54 ELSE x.e - y.e - 55
             s1 == DivStep(BigSub(n0, y.m), y.m)
             s2 == DivStep(s1.r, y.m)
             s3 == DivStep(s2.r, y.m)
             s4 == DivStep(s3.r, y.m)
             s5 == DivStep(s4.r, y.m)
             s6 == DivStep(s5.r, y.m)
             q  == << Limb + s1.q * 512 + s2.q,
                      s3.q * 512 + s4.q,
                      s5.q * 512 + s6.q >>
             n  == NormDown(q, e0, FALSE, s6.r # BigZero)
         IN  RoundRNE(n.m, n.e, n.round, n.sticky)

\* A mantissa with a short significant part, as w * 2^k with w odd.
StripZeros(m) ==
    LET w0 == IF m[2] = 0 /\ m[3] = 0 THEN m[1]
              ELSE IF m[3] = 0 THEN m[1] * Limb + m[2]
              ELSE (m[1] * Limb + m[2]) * Limb + m[3]
        k0 == IF m[2] = 0 /\ m[3] = 0 THEN 36
              ELSE IF m[3] = 0 THEN 18 ELSE 0
        tz == TrailingZeros(w0)
    IN  [w |-> w0 \div Pow2(tz), k |-> k0 + tz]

\* x * y in f64, for x whose mantissa has a short significant part (an
\* integer converted from u64): the exact product, rounded once.
F64Mul(x, y) ==
    IF x.m = BigZero \/ y.m = BigZero THEN F64Zero
    ELSE LET s == StripZeros(x.m)
             p == BigMulSmall(y.m, s.w)
             n == NormDown(p, x.e + s.k + y.e, FALSE, FALSE)
         IN  RoundRNE(n.m, n.e, n.round, n.sticky)

\* Integer part of m * 2^e for a mantissa m below 2^54.
BigTrunc(m, e) ==
    IF e >= 0 THEN m
    ELSE IF e <= -54 THEN BigZero
    ELSE IF e <= -36 THEN BigShr(<<0, 0, m[1]>>, (-e) - 36)
    ELSE IF e <= -18 THEN BigShr(<<0, m[1], m[2]>>, (-e) - 18)
    ELSE BigShr(m, -e)

\* `x as u64`: truncation toward zero, saturating at u64::MAX.
F64ToU64(x) ==
    IF x.e > 0 THEN U64_MAX
    ELSE LET t == BigTrunc(x.m, x.e)
         IN  IF t[1] > 0 \/ t[2] >= 4096 \/ t[2] * Limb + t[3] > U64_MAX
             THEN U64_MAX
             ELSE t[2] * Limb + t[3]

\* ------------------------------------------------------------------------
\* Accounts and identities.
\* ------------------------------------------------------------------------
\* Keys that sign transactions.
Signers == {"admin", "alice"}
\* Keys that create a vault; the vault PDA is seeded by its admin's key
\* (InitializeVault.seeds), so a vault is identified by that key.
Admins == {"admin"}
\* Vault accounts: one PDA per signer key that may ever create a vault.
Vaults == Signers
NoKey == "none"

\* Wallet balance of each signer before any transaction.
StartLamports(u) == InitLamports
\* Wallet balance of each signer in the runs with several vaults.
VaultsLamports == 1

\* Account data before `init`: not owned by the program.
NoVault == [is_init |-> FALSE, admin |-> NoKey, total_shares |-> 0,
            total_sol |-> 0, invested_amount |-> 0]
NoUser == [is_init |-> FALSE, shares |-> 0]

Errors == {"Ok", "AccountNotInitialized", "AccountAlreadyInUse",
           "InsufficientFunds", "Panic", "Unauthorized",
           "InsufficientVaultBalance", "InsufficientUserShares",
           "NoVaultShares"}

VARIABLES
    vault_account,     \* vault key -> VaultAccount data
    user_account,      \* <<user key, vault key>> -> VaultUser data
    user_lamports,     \* signer -> lamports in the signer's wallet
    vault_lamports,    \* vault key -> lamports held by the vault account
                       \* above its rent reserve
    overflow_checks,   \* build profile: does integer overflow panic?
    last               \* the last instruction processed and its outcome

vars == <<vault_account, user_account, user_lamports, vault_lamports,
          overflow_checks, last>>

\* ------------------------------------------------------------------------
\* u64 arithmetic of the build: `+=` and `-=` panic on overflow when
\* overflow-checks is on, and wrap otherwise.
\* ------------------------------------------------------------------------
U64 == 0..U64_MAX
WrapU64(x) == x % (U64_MAX + 1)
OutOfU64(x) == x < 0 \/ x > U64_MAX

\* ------------------------------------------------------------------------
\* Instruction handlers.  Each takes the deserialized accounts and returns
\* the handler's result: err, the accounts as the handler left them, and
\* the lamports it moved to the vault (negative: out of the vault).
\* ------------------------------------------------------------------------
Result(err, va, ua, moved) == [err |-> err, va |-> va, ua |-> ua, moved |-> moved]

initialize_vault(va, admin) ==
    Result("Ok",
           [is_init |-> TRUE, admin |-> admin, total_shares |-> 0,
            total_sol |-> 0, invested_amount |-> 0],
           NoUser, 0)

\* The pro-rata branch of deposit:
\* (amount as f64 / (total_sol as f64 / total_shares as f64)) as u64.
ProRataShares(amount, total_sol, total_shares) ==
    LET share_price == F64Div(U64ToF64(total_sol), U64ToF64(total_shares))
    IN  F64ToU64(F64Div(U64ToF64(amount), share_price))

\* ProRataShares for every u64 argument of the model, evaluated once.
MintTable ==
    [a \in U64, s \in U64 \ {0}, t \in U64 \ {0} |-> ProRataShares(a, s, t)]

\* shares_to_mint of deposit.
SharesToMint(va, amount) ==
    IF va.total_sol = 0 \/ va.total_shares = 0 THEN amount
    ELSE MintTable[amount, va.total_sol, va.total_shares]

\* deposit after shares_to_mint is computed: the three `+=` updates.
deposit_credit(va, ua, amount, shares_to_mint, oc) ==
    LET sol    == va.total_sol + amount
        va1    == [va EXCEPT !.total_sol = WrapU64(sol)]
        shares == va.total_shares + shares_to_mint
        va2    == [va1 EXCEPT !.total_shares = WrapU64(shares)]
        ushares == ua.shares + shares_to_mint
        ua1    == [ua EXCEPT !.shares = WrapU64(ushares)]
    IN  IF oc /\ OutOfU64(sol) THEN Result("Panic", va, ua, amount)
        ELSE IF oc /\ OutOfU64(shares) THEN Result("Panic", va1, ua, amount)
        ELSE IF oc /\ OutOfU64(ushares) THEN Result("Panic", va2, ua, amount)
        ELSE Result("Ok", va2, ua1, amount)

deposit(va, ua, wallet, amount, oc) ==
    IF wallet < amount THEN Result("InsufficientFunds", va, ua, 0)
    ELSE deposit_credit(va, ua, amount, SharesToMint(va, amount), oc)

\* invest without the admin check.
invest_no_admin_check(va, signer, sol_to_invest, oc) ==
    IF ~(va.total_sol >= sol_to_invest)
    THEN Result("InsufficientVaultBalance", va, NoUser, 0)
    ELSE
    LET va1 == [va EXCEPT !.total_sol = va.total_sol - sol_to_invest]
        inv == va.invested_amount + sol_to_invest
        va2 == [va1 EXCEPT !.invested_amount = WrapU64(inv)]
    IN  IF oc /\ OutOfU64(inv) THEN Result("Panic", va1, NoUser, 0)
        ELSE Result("Ok", va2, NoUser, 0)

\* invest that books the investment without taking it out of total_sol.
invest_keeps_liquid(va, signer, sol_to_invest, oc) ==
    IF va.admin # signer THEN Result("Unauthorized", va, NoUser, 0)
    ELSE IF ~(va.total_sol >= sol_to_invest)
    THEN Result("InsufficientVaultBalance", va, NoUser, 0)
    ELSE
    LET inv == va.invested_amount + sol_to_invest
        va2 == [va EXCEPT !.invested_amount = WrapU64(inv)]
    IN  IF oc /\ OutOfU64(inv) THEN Result("Panic", va, NoUser, 0)
        ELSE Result("Ok", va2, NoUser, 0)

invest(va, signer, sol_to_invest, oc) ==
    IF va.admin # signer THEN Result("Unauthorized", va, NoUser, 0)
    ELSE IF ~(va.total_sol >= sol_to_invest)
    THEN Result("InsufficientVaultBalance", va, NoUser, 0)
    ELSE
    LET va1 == [va EXCEPT !.total_sol = va.total_sol - sol_to_invest]
        inv == va.invested_amount + sol_to_invest
        va2 == [va1 EXCEPT !.invested_amount = WrapU64(inv)]
    IN  IF oc /\ OutOfU64(inv) THEN Result("Panic", va1, NoUser, 0)
        ELSE Result("Ok", va2, NoUser, 0)

\* finalize_strategy that closes the position without crediting total_sol.
finalize_strategy_no_credit(va, signer, oc) ==
    IF va.admin # signer THEN Result("Unauthorized", va, NoUser, 0)
    ELSE Result("Ok", [va EXCEPT !.invested_amount = 0], NoUser, 0)

finalize_strategy(va, signer, oc) ==
    IF va.admin # signer THEN Result("Unauthorized", va, NoUser, 0)
    ELSE
    LET sol_received == va.invested_amount
        va1 == [va EXCEPT !.invested_amount = 0]
        sol == va.total_sol + sol_received
        va2 == [va1 EXCEPT !.total_sol = WrapU64(sol)]
    IN  IF oc /\ OutOfU64(sol) THEN Result("Panic", va1, NoUser, 0)
        ELSE Result("Ok", va2, NoUser, 0)

\* The redemption value of withdraw:
\* (shares as f64 * (total_sol as f64 / total_shares as f64)) as u64.
RedeemValue(shares, total_sol, total_shares) ==
    LET share_price == F64Div(U64ToF64(total_sol), U64ToF64(total_shares))
    IN  F64ToU64(F64Mul(U64ToF64(shares), share_price))

\* RedeemValue for every u64 argument of the model, evaluated once.
RedeemTable ==
    [w \in U64, s \in U64, t \in U64 \ {0} |-> RedeemValue(w, s, t)]

\* sol_amount of withdraw.
SolAmount(va, shares_to_withdraw) ==
    RedeemTable[shares_to_withdraw, va.total_sol, va.total_shares]

\* withdraw that pays the lamports out without debiting total_sol.
withdraw_pay_no_debit(va, ua, held, shares_to_withdraw, sol_amount, oc) ==
    LET shares == va.total_shares - shares_to_withdraw
        va2    == [va EXCEPT !.total_shares = WrapU64(shares)]
        ua1    == [ua EXCEPT !.shares = ua.shares - shares_to_withdraw]
    IN  IF ~(va.total_sol >= sol_amount)
        THEN Result("InsufficientVaultBalance", va, ua, 0)
        ELSE IF oc /\ OutOfU64(shares) THEN Result("Panic", va, ua, 0)
        ELSE IF held < sol_amount THEN Result("Panic", va2, ua1, 0)
        ELSE Result("Ok", va2, ua1, -sol_amount)

\* withdraw after sol_amount is computed: the liquidity check, the
\* updates and the lamport payout.
withdraw_pay(va, ua, held, shares_to_withdraw, sol_amount, oc) ==
    LET va1    == [va EXCEPT !.total_sol = va.total_sol - sol_amount]
        shares == va.total_shares - shares_to_withdraw
        va2    == [va1 EXCEPT !.total_shares = WrapU64(shares)]
        ua1    == [ua EXCEPT !.shares = ua.shares - shares_to_withdraw]
    IN  IF ~(va.total_sol >= sol_amount)
        THEN Result("InsufficientVaultBalance", va, ua, 0)
        ELSE IF oc /\ OutOfU64(shares) THEN Result("Panic", va1, ua, 0)
        ELSE IF held < sol_amount THEN Result("Panic", va2, ua1, 0)
        ELSE Result("Ok", va2, ua1, -sol_amount)

withdraw(va, ua, held, shares_to_withdraw, oc) ==
    IF ~(ua.shares >= shares_to_withdraw)
    THEN Result("InsufficientUserShares", va, ua, 0)
    ELSE IF ~(va.total_shares > 0) THEN Result("NoVaultShares", va, ua, 0)
    ELSE withdraw_pay(va, ua, held, shares_to_withdraw,
                      SolAmount(va, shares_to_withdraw), oc)

\* ------------------------------------------------------------------------
\* Transactions.  The program entry point deserializes the accounts, runs
\* the handler and writes the accounts back; when the handler returns an
\* error or panics, the transaction fails and nothing it wrote is kept.
\* ------------------------------------------------------------------------
CommitAlways(pre, post, err) == post

Commit(pre, post, err) == IF err = "Ok" THEN post ELSE pre

Min(a, b) == IF a <= b THEN a ELSE b

\* Arguments a caller passes: every amount up to the first one that the
\* instruction rejects for being too large.
DepositAmounts(u) == 0..Min(U64_MAX, user_lamports[u] + 1)
InvestAmounts(v) == 0..Min(U64_MAX, vault_account[v].total_sol + 1)
WithdrawShares(u, v) == 0..Min(U64_MAX, user_account[<<u, v>>].shares + 1)

Last(op, v, signer, arg, res, va, minted) ==
    [op |-> op, vault |-> v, signer |-> signer, arg |-> arg,
     err |-> res.err, pre |-> va,
     minted |-> IF res.err = "Ok" THEN minted ELSE 0,
     paid |-> IF res.err = "Ok" /\ res.moved < 0 THEN -res.moved ELSE 0]

Init ==
    /\ vault_account = [v \in Vaults |-> NoVault]
    /\ user_account = [k \in Signers \X Vaults |-> NoUser]
    /\ user_lamports = [u \in Signers |-> StartLamports(u)]
    /\ vault_lamports = [v \in Vaults |-> 0]
    /\ overflow_checks \in BOOLEAN
    /\ last = [op |-> "none", vault |-> NoKey, signer |-> NoKey, arg |-> 0,
               err |-> "Ok", pre |-> NoVault, minted |-> 0, paid |-> 0]

\* initialize_vault whose vault_account is declared init_if_needed: the
\* handler also runs on a vault that exists.
InitializeVault_if_needed(admin) ==
    LET va  == vault_account[admin]
        res == initialize_vault(va, admin)
    IN  /\ vault_account' = [vault_account EXCEPT ![admin] = Commit(va, res.va, res.err)]
        /\ last' = Last("initialize_vault", admin, admin, 0, res, va, 0)
        /\ UNCHANGED <<user_account, user_lamports, vault_lamports, overflow_checks>>

InitializeVault(admin) ==
    LET va  == vault_account[admin]
        res == IF va.is_init
               THEN Result("AccountAlreadyInUse", va, NoUser, 0)
               ELSE initialize_vault(va, admin)
    IN  /\ vault_account' = [vault_account EXCEPT ![admin] = Commit(va, res.va, res.err)]
        /\ last' = Last("initialize_vault", admin, admin, 0, res, va, 0)
        /\ UNCHANGED <<user_account, user_lamports, vault_lamports, overflow_checks>>

\* Settle with the VaultUser PDA seeded by the vault alone: every user of
\* the vault shares one position.
Settle_shared_position(op, v, user, arg, va, ua0, res, minted) ==
    /\ vault_account' = [vault_account EXCEPT ![v] = Commit(va, res.va, res.err)]
    /\ user_account' = [k \in Signers \X Vaults |->
                           IF k[2] = v THEN Commit(ua0, res.ua, res.err)
                           ELSE user_account[k]]
    /\ user_lamports' = [user_lamports EXCEPT
                           ![user] = Commit(@, @ - res.moved, res.err)]
    /\ vault_lamports' = [vault_lamports EXCEPT
                           ![v] = Commit(@, @ + res.moved, res.err)]
    /\ last' = Last(op, v, user, arg, res, va, minted)
    /\ UNCHANGED overflow_checks

\* The outcome of an instruction on a vault and a user: the accounts and
\* lamports written back, and the record of the instruction.
Settle(op, v, user, arg, va, ua0, res, minted) ==
    /\ vault_account' = [vault_account EXCEPT ![v] = Commit(va, res.va, res.err)]
    /\ user_account' = [user_account EXCEPT ![<<user, v>>] = Commit(ua0, res.ua, res.err)]
    /\ user_lamports' = [user_lamports EXCEPT
                           ![user] = Commit(@, @ - res.moved, res.err)]
    /\ vault_lamports' = [vault_lamports EXCEPT
                           ![v] = Commit(@, @ + res.moved, res.err)]
    /\ last' = Last(op, v, user, arg, res, va, minted)
    /\ UNCHANGED overflow_checks

Deposit(v, user, amount) ==
    LET va  == vault_account[v]
        ua0 == user_account[<<user, v>>]
        ua  == IF ua0.is_init THEN ua0 ELSE [is_init |-> TRUE, shares |-> 0]
    IN  Settle("deposit", v, user, amount, va, ua0,
               IF ~va.is_init
               THEN Result("AccountNotInitialized", va, ua0, 0)
               ELSE deposit(va, ua, user_lamports[user], amount, overflow_checks),
               IF va.is_init THEN SharesToMint(va, amount) ELSE 0)

Invest(v, signer, sol_to_invest) ==
    LET va  == vault_account[v]
        res == IF ~va.is_init
               THEN Result("AccountNotInitialized", va, NoUser, 0)
               ELSE invest(va, signer, sol_to_invest, overflow_checks)
    IN  /\ vault_account' = [vault_account EXCEPT ![v] = Commit(va, res.va, res.err)]
        /\ last' = Last("invest", v, signer, sol_to_invest, res, va, 0)
        /\ UNCHANGED <<user_account, user_lamports, vault_lamports, overflow_checks>>

FinalizeStrategy(v, signer) ==
    LET va  == vault_account[v]
        res == IF ~va.is_init
               THEN Result("AccountNotInitialized", va, NoUser, 0)
               ELSE finalize_strategy(va, signer, overflow_checks)
    IN  /\ vault_account' = [vault_account EXCEPT ![v] = Commit(va, res.va, res.err)]
        /\ last' = Last("finalize_strategy", v, signer, 0, res, va, 0)
        /\ UNCHANGED <<user_account, user_lamports, vault_lamports, overflow_checks>>

Withdraw(v, user, shares_to_withdraw) ==
    LET va  == vault_account[v]
        ua  == user_account[<<user, v>>]
    IN  Settle("withdraw", v, user, shares_to_withdraw, va, ua,
               IF ~va.is_init \/ ~ua.is_init
               THEN Result("AccountNotInitialized", va, ua, 0)
               ELSE withdraw(va, ua, vault_lamports[v], shares_to_withdraw,
                             overflow_checks),
               0)

\* One transaction: any signer in creators creates its vault, or any signer
\* sends an instruction to one of the vaults in targets.
Step(creators, targets) ==
    \/ \E a \in creators : InitializeVault(a)
    \/ \E v \in targets, u \in Signers :
         \E amount \in DepositAmounts(u) : Deposit(v, u, amount)
    \/ \E v \in targets, u \in Signers :
         \E x \in InvestAmounts(v) : Invest(v, u, x)
    \/ \E v \in targets, u \in Signers : FinalizeStrategy(v, u)
    \/ \E v \in targets, u \in Signers :
         \E s \in WithdrawShares(u, v) : Withdraw(v, u, s)

Next == Step(Admins, Admins)

Spec == Init /\ [][Next]_vars

\* Several vaults side by side: every signer creates its own vault, and
\* every signer uses every vault.
InitVaults ==
    /\ vault_account = [v \in Vaults |-> NoVault]
    /\ user_account = [k \in Signers \X Vaults |-> NoUser]
    /\ user_lamports = [u \in Signers |-> VaultsLamports]
    /\ vault_lamports = [v \in Vaults |-> 0]
    /\ overflow_checks \in BOOLEAN
    /\ last = [op |-> "none", vault |-> NoKey, signer |-> NoKey, arg |-> 0,
               err |-> "Ok", pre |-> NoVault, minted |-> 0, paid |-> 0]

NextVaults == Step(Vaults, Vaults)

SpecVaults == InitVaults /\ [][NextVaults]_vars

TypeOK ==
    /\ \A v \in Vaults :
         /\ vault_account[v].total_shares \in 0..U64_MAX
         /\ vault_account[v].total_sol \in 0..U64_MAX
         /\ vault_account[v].invested_amount \in 0..U64_MAX
         /\ vault_lamports[v] >= 0
    /\ \A k \in Signers \X Vaults : user_account[k].shares \in 0..U64_MAX
    /\ \A u \in Signers : user_lamports[u] >= 0
    /\ last.err \in Errors

\* ------------------------------------------------------------------------
\* Properties.  In an action formula the unprimed variables are the state
\* before an instruction, the primed ones the state after it, and last'
\* describes the instruction.
\* ------------------------------------------------------------------------
Value(va) == va.total_sol + va.invested_amount

C2_NoDevaluation ==
    [][(/\ last'.op \in {"deposit", "withdraw"}
        /\ last'.err = "Ok"
        /\ vault_account[last'.vault].total_shares > 0
        /\ vault_account'[last'.vault].total_shares > 0)
       => Value(vault_account'[last'.vault]) * vault_account[last'.vault].total_shares
            >= Value(vault_account[last'.vault]) * vault_account'[last'.vault].total_shares]_vars

\* C3 (conservation): from a state with invested_amount = 0, a successful
\* deposit of A followed immediately by the same user's withdraw of exactly
\* the shares that deposit minted pays out at most A.
C3_Conservation ==
    [][(/\ last.op = "deposit"
        /\ last.err = "Ok"
        /\ last.pre.invested_amount = 0
        /\ last'.op = "withdraw"
        /\ last'.err = "Ok"
        /\ last'.vault = last.vault
        /\ last'.signer = last.signer
        /\ last'.arg = last.minted)
       => last'.paid <= last.arg]_vars

\* Integer pro-rata quantities of the specification.
FloorDiv(a, b) == a \div b
SpecMint(va, amount) == FloorDiv(amount * va.total_shares, Value(va))
SpecOwed(va, shares) == FloorDiv(shares * Value(va), va.total_shares)

\* C4 (pro-rata minting): a successful deposit into a vault with
\* total_shares > 0 and total_sol + invested_amount > 0 mints exactly
\* floor(amount * total_shares / (total_sol + invested_amount)) shares;
\* total_sol grows by amount, total_shares and the caller's shares grow by
\* the minted quantity.
C4_ProRataMint ==
    [][(/\ last'.op = "deposit"
        /\ last'.err = "Ok"
        /\ vault_account[last'.vault].total_shares > 0
        /\ Value(vault_account[last'.vault]) > 0)
       => LET v  == last'.vault
              k  == <<last'.signer, last'.vault>>
              va == vault_account[v]
              minted == SpecMint(va, last'.arg)
          IN  /\ last'.minted = minted
              /\ vault_account'[v].total_sol = va.total_sol + last'.arg
              /\ vault_account'[v].total_shares = va.total_shares + minted
              /\ user_account'[k].shares = user_account[k].shares + minted]_vars

\* C5 (bootstrap minting): a successful deposit mints amount shares 1:1
\* when total_shares = 0 or total_sol + invested_amount = 0, and a deposit
\* made while total_shares > 0 and the funds are fully invested
\* (total_sol = 0, invested_amount > 0) is minted pro-rata, not 1:1.
C5_BootstrapMint ==
    [][(last'.op = "deposit" /\ last'.err = "Ok")
       => LET va == vault_account[last'.vault]
          IN  /\ (va.total_shares = 0 \/ Value(va) = 0)
                    => last'.minted = last'.arg
              /\ (va.total_shares > 0 /\ va.total_sol = 0 /\ va.invested_amount > 0)
                    => last'.minted = SpecMint(va, last'.arg)]_vars

\* C6 (redemption amount): a successful withdraw of s shares pays exactly
\* floor(s * (total_sol + invested_amount) / total_shares), reduces
\* total_sol by that amount, and reduces total_shares and the caller's
\* shares by s.
C6_RedemptionAmount ==
    [][(last'.op = "withdraw" /\ last'.err = "Ok")
       => LET v  == last'.vault
              k  == <<last'.signer, last'.vault>>
              va == vault_account[v]
              owed == SpecOwed(va, last'.arg)
          IN  /\ last'.paid = owed
              /\ vault_account'[v].total_sol = va.total_sol - owed
              /\ vault_account'[v].total_shares = va.total_shares - last'.arg
              /\ user_account'[k].shares = user_account[k].shares - last'.arg]_vars

\* C7 (withdrawal cap): a withdraw of s shares the caller holds, whose
\* amount owed on total_sol + invested_amount exceeds total_sol, fails with
\* InsufficientVaultBalance, and the caller keeps all their shares.
C7_WithdrawalCap ==
    [][(/\ last'.op = "withdraw"
        /\ vault_account[last'.vault].is_init
        /\ user_account[<<last'.signer, last'.vault>>].is_init
        /\ user_account[<<last'.signer, last'.vault>>].shares >= last'.arg
        /\ vault_account[last'.vault].total_shares > 0
        /\ SpecOwed(vault_account[last'.vault], last'.arg)
              > vault_account[last'.vault].total_sol)
       => /\ last'.err = "InsufficientVaultBalance"
          /\ user_account' = user_account
          /\ last'.paid = 0]_vars

\* C8 (admin gate): invest and finalize_strategy signed by any key other
\* than the vault's admin fail with Unauthorized and leave total_sol and
\* invested_amount unchanged; invested_amount changes only in an invest or
\* finalize_strategy signed by the admin.
C8_AdminGate ==
    [][\A v \in Admins :
          /\ (/\ last'.op \in {"invest", "finalize_strategy"}
              /\ last'.vault = v
              /\ vault_account[v].is_init
              /\ last'.signer # vault_account[v].admin)
             => /\ last'.err = "Unauthorized"
                /\ vault_account'[v].total_sol = vault_account[v].total_sol
                /\ vault_account'[v].invested_amount = vault_account[v].invested_amount
          /\ (vault_account'[v].invested_amount # vault_account[v].invested_amount)
             => /\ last'.op \in {"invest", "finalize_strategy"}
                /\ last'.vault = v
                /\ last'.signer = vault_account[v].admin]_vars

\* A non-admin asked to invest an amount the vault could have covered and
\* was refused.
C8_Witness ==
    /\ last.op = "invest"
    /\ last.err = "Unauthorized"
    /\ last.signer # last.pre.admin
    /\ last.arg > 0
    /\ last.arg <= vault_account[last.vault].total_sol

\* C9 (invest bound): invest(sol_to_invest) signed by the admin fails with
\* InsufficientVaultBalance when sol_to_invest > total_sol; otherwise it
\* moves sol_to_invest from total_sol to invested_amount and leaves
\* total_shares, every VaultUser and total_sol + invested_amount unchanged;
\* total_sol never underflows.
C9_InvestBound ==
    [][\A v \in Admins :
          /\ vault_account'[v].total_sol \in U64
          /\ (/\ last'.op = "invest"
              /\ last'.vault = v
              /\ vault_account[v].is_init
              /\ last'.signer = vault_account[v].admin)
             => IF last'.arg > vault_account[v].total_sol
                THEN /\ last'.err = "InsufficientVaultBalance"
                     /\ vault_account'[v] = vault_account[v]
                ELSE /\ last'.err = "Ok"
                     /\ vault_account'[v].total_sol
                           = vault_account[v].total_sol - last'.arg
                     /\ vault_account'[v].invested_amount
                           = vault_account[v].invested_amount + last'.arg
                     /\ vault_account'[v].total_shares = vault_account[v].total_shares
                     /\ user_account' = user_account
                     /\ Value(vault_account'[v]) = Value(vault_account[v])]_vars

\* The admin invested part of a vault that has shareholders.
C9_Witness ==
    /\ last.op = "invest"
    /\ last.err = "Ok"
    /\ last.arg > 0
    /\ last.pre.total_shares > 0
    /\ vault_account[last.vault].invested_amount = last.pre.invested_amount + last.arg
    /\ vault_account[last.vault].total_sol > 0

\* C10 (finalize round-trip): a successful finalize_strategy sets
\* invested_amount to 0 and adds the amount received (the whole
\* invested_amount) to total_sol, leaving total_shares and every VaultUser
\* unchanged; when it directly follows a successful invest(x) and receives
\* exactly x, total_sol is back at its value before that invest.
C10_FinalizeRoundTrip ==
    [][(last'.op = "finalize_strategy" /\ last'.err = "Ok")
       => LET v  == last'.vault
              va == vault_account[v]
          IN  /\ vault_account'[v].invested_amount = 0
              /\ vault_account'[v].total_sol = va.total_sol + va.invested_amount
              /\ vault_account'[v].total_shares = va.total_shares
              /\ user_account' = user_account
              /\ (/\ last.op = "invest"
                  /\ last.err = "Ok"
                  /\ last.vault = v
                  /\ va.invested_amount = last.arg)
                 => vault_account'[v].total_sol = last.pre.total_sol]_vars

\* A position was unwound and its amount is liquid again.
C10_Witness ==
    /\ last.op = "finalize_strategy"
    /\ last.err = "Ok"
    /\ last.pre.invested_amount > 0
    /\ last.pre.total_shares > 0
    /\ vault_account[last.vault].invested_amount = 0
    /\ vault_account[last.vault].total_sol
          = last.pre.total_sol + last.pre.invested_amount

\* C11 (overflow guard): an instruction whose add on a u64 field of the
\* VaultAccount or VaultUser exceeds u64::MAX (total_sol + amount,
\* total_shares + minted or the user's shares + minted in deposit,
\* invested_amount + sol_to_invest in invest, total_sol + invested_amount
\* in finalize_strategy) fails and leaves every account unchanged, so no
\* field ever holds a wrapped value.
C11_OverflowGuard ==
    [][\A v \in Vaults :
          LET va == vault_account[v]
              ua == user_account[<<last'.signer, v>>]
              minted == SharesToMint(va, last'.arg)
          IN  (/\ last'.vault = v
               /\ va.is_init
               /\ \/ /\ last'.op = "deposit"
                     /\ user_lamports[last'.signer] >= last'.arg
                     /\ \/ va.total_sol + last'.arg > U64_MAX
                        \/ va.total_shares + minted > U64_MAX
                        \/ ua.shares + minted > U64_MAX
                  \/ /\ last'.op = "invest"
                     /\ last'.signer = va.admin
                     /\ va.total_sol >= last'.arg
                     /\ va.invested_amount + last'.arg > U64_MAX
                  \/ /\ last'.op = "finalize_strategy"
                     /\ last'.signer = va.admin
                     /\ va.total_sol + va.invested_amount > U64_MAX)
              => /\ last'.err # "Ok"
                 /\ vault_account' = vault_account
                 /\ user_account' = user_account]_vars

\* C12 (dust-deposit guard): a deposit of amount > 0 into a vault with
\* total_shares > 0 and total_sol + invested_amount > 0 whose pro-rata
\* quantity floor(amount * total_shares / (total_sol + invested_amount))
\* is 0 fails and changes no account; and no successful deposit increases
\* total_sol while minting 0 shares.
C12_DustDepositGuard ==
    [][(last'.op = "deposit" /\ vault_account[last'.vault].is_init)
       => LET v  == last'.vault
              va == vault_account[v]
          IN  /\ (/\ last'.arg > 0
                  /\ va.total_shares > 0
                  /\ Value(va) > 0
                  /\ SpecMint(va, last'.arg) = 0)
                 => /\ last'.err # "Ok"
                    /\ vault_account' = vault_account
                    /\ user_account' = user_account
              /\ (/\ last'.err = "Ok"
                  /\ vault_account'[v].total_sol > va.total_sol)
                 => last'.minted > 0]_vars

\* C13 (zero-amount deposit): deposit(0) fails in every state, leaves
\* total_sol, total_shares and the caller's shares unchanged and creates
\* no VaultUser.
C13_ZeroAmountDeposit ==
    [][(last'.op = "deposit" /\ last'.arg = 0)
       => /\ last'.err # "Ok"
          /\ vault_account' = vault_account
          /\ user_account' = user_account]_vars

\* C14 (insufficient user shares): withdraw(s) by a caller holding fewer
\* than s shares fails with InsufficientUserShares, whatever total_shares
\* and total_sol are, and changes nothing; a successful withdraw(s) takes
\* s from the caller's shares and from total_shares without underflow, and
\* no withdraw changes another user's VaultUser.
C14_InsufficientUserShares ==
    [][(/\ last'.op = "withdraw"
        /\ vault_account[last'.vault].is_init
        /\ user_account[<<last'.signer, last'.vault>>].is_init)
       => LET v  == last'.vault
              k  == <<last'.signer, last'.vault>>
          IN  /\ user_account[k].shares < last'.arg
                 => /\ last'.err = "InsufficientUserShares"
                    /\ vault_account' = vault_account
                    /\ user_account' = user_account
                    /\ user_lamports' = user_lamports
                    /\ vault_lamports' = vault_lamports
              /\ last'.err = "Ok"
                 => /\ user_account[k].shares >= last'.arg
                    /\ vault_account[v].total_shares >= last'.arg
                    /\ user_account'[k].shares = user_account[k].shares - last'.arg
                    /\ vault_account'[v].total_shares
                          = vault_account[v].total_shares - last'.arg
              /\ \A o \in Signers \X Vaults :
                    o # k => user_account'[o] = user_account[o]]_vars

\* C15 (initialize once): initialize_vault on a vault that does not exist
\* creates it with the signer as admin and total_shares = total_sol =
\* invested_amount = 0; initialize_vault on a vault that exists fails and
\* resets no field; and no instruction changes the admin of a vault that
\* exists.
C15_InitializeOnce ==
    [][/\ last'.op = "initialize_vault"
          => LET v == last'.vault
             IN  IF vault_account[v].is_init
                 THEN /\ last'.err = "AccountAlreadyInUse"
                      /\ vault_account' = vault_account
                      /\ user_account' = user_account
                 ELSE /\ last'.err = "Ok"
                      /\ vault_account'[v] =
                            [is_init |-> TRUE, admin |-> last'.signer,
                             total_shares |-> 0, total_sol |-> 0,
                             invested_amount |-> 0]
       /\ \A v \in Vaults :
             vault_account[v].is_init
                => /\ vault_account'[v].is_init
                   /\ vault_account'[v].admin = vault_account[v].admin]_vars

\* initialize_vault was refused on a vault that holds deposits and an open
\* position, and the vault kept them.
C15_Witness ==
    /\ last.op = "initialize_vault"
    /\ last.err = "AccountAlreadyInUse"
    /\ last.pre.total_shares > 0
    /\ last.pre.total_sol > 0
    /\ last.pre.invested_amount > 0
    /\ vault_account[last.vault] = last.pre

\* Shares recorded in the VaultUser accounts of the users in S for vault v.
RECURSIVE SharesHeld(_, _)
SharesHeld(S, v) ==
    IF S = {} THEN 0
    ELSE LET u == CHOOSE x \in S : TRUE
         IN  user_account[<<u, v>>].shares + SharesHeld(S \ {u}, v)

\* C16 (share supply consistency): in every reachable state total_shares
\* of a vault equals the sum of the shares of all its VaultUser accounts.
C16_ShareSupply ==
    \A v \in Vaults :
       vault_account[v].total_shares = SharesHeld(Signers, v)

\* C17 (ledger backed by custody): after every instruction the lamports
\* held for a vault (all deposits minus all payouts) equal total_sol +
\* invested_amount, and a withdraw pays out no more than the liquid
\* lamports held before it.
C17_BackedByCustody ==
    [][\A v \in Vaults :
          /\ vault_lamports'[v] = Value(vault_account'[v])
          /\ (last'.op = "withdraw" /\ last'.vault = v /\ last'.err = "Ok")
               => /\ last'.paid <= vault_account[v].total_sol
                  /\ last'.paid <= vault_lamports[v] - vault_account[v].invested_amount
                  /\ vault_lamports'[v] = vault_lamports[v] - last'.paid]_vars

\* A withdraw was paid out of the liquid part of a vault that has an open
\* position, and the vault still holds what its ledger records.
C17_Witness ==
    /\ last.op = "withdraw"
    /\ last.err = "Ok"
    /\ last.paid > 0
    /\ last.pre.invested_amount > 0
    /\ vault_lamports[last.vault] = Value(vault_account[last.vault])
    /\ vault_lamports[last.vault] > 0

\* C18 (position isolation): an instruction changes a VaultUser only if it
\* is a deposit or withdraw signed by that user on that vault; invest,
\* finalize_strategy and initialize_vault change no VaultUser; and an
\* instruction on one vault leaves every other vault's VaultAccount,
\* lamports and VaultUser accounts unchanged.
C18_PositionIsolation ==
    [][/\ \A k \in Signers \X Vaults :
             user_account'[k] # user_account[k]
                => /\ last'.op \in {"deposit", "withdraw"}
                   /\ k = <<last'.signer, last'.vault>>
       /\ \A v \in Vaults :
             v # last'.vault
                => /\ vault_account'[v] = vault_account[v]
                   /\ vault_lamports'[v] = vault_lamports[v]]_vars

\* A user deposited into a vault in which another user holds shares, while
\* another vault exists.
C18_Witness ==
    /\ last.op = "deposit"
    /\ last.err = "Ok"
    /\ last.minted > 0
    /\ \E o \in Signers :
          /\ o # last.signer
          /\ user_account[<<o, last.vault>>].shares > 0
    /\ \E w \in Vaults :
          /\ w # last.vault
          /\ vault_account[w].is_init

\* C19 (single open position): invest by the admin while invested_amount
\* > 0 is rejected and changes nothing, so invested_amount never
\* accumulates the amounts of several invest calls.
C19_SinglePosition ==
    [][(/\ last'.op = "invest"
        /\ vault_account[last'.vault].is_init
        /\ last'.signer = vault_account[last'.vault].admin
        /\ last'.arg > 0
        /\ vault_account[last'.vault].invested_amount > 0)
       => /\ last'.err # "Ok"
          /\ vault_account' = vault_account]_vars

\* C20 (redeemability when nothing is invested): in a state with
\* invested_amount = 0 a withdraw of s shares, 0 < s <= the caller's
\* shares, succeeds; and once nothing is invested and every holder has
\* withdrawn all their shares, the vault is left with total_shares = 0 and
\* total_sol = 0.
C20_Redeemability ==
    [][\A v \in Vaults :
          /\ (/\ last'.op = "withdraw"
              /\ last'.vault = v
              /\ vault_account[v].is_init
              /\ user_account[<<last'.signer, v>>].is_init
              /\ vault_account[v].invested_amount = 0
              /\ last'.arg > 0
              /\ last'.arg <= user_account[<<last'.signer, v>>].shares)
             => last'.err = "Ok"
          /\ (/\ vault_account'[v].invested_amount = 0
              /\ \A u \in Signers : user_account'[<<u, v>>].shares = 0)
             => /\ vault_account'[v].total_shares = 0
                /\ vault_account'[v].total_sol = 0]_vars

====
